---- MODULE Spec2Model ----
(***************************************************************************)
(* Task API (src/main.py): authentication-gated CRUD over the Firestore    *)
(* collection "tasks".  The handlers are plain `def` endpoints, which the  *)
(* HTTP server runs on worker threads, so requests interleave between      *)
(* their calls to the document store.  Each call to the store (get, set,   *)
(* update, delete, query) is one atomic step.                              *)
(***************************************************************************)
EXTENDS Integers, FiniteSets, Sequences, TLC

VARIABLES
    store,      \* the "tasks" collection: document id -> document (a dict)
    nextId,     \* number of auto-ids handed out by collection.document()
    pc,         \* per worker: position of the request it is serving
    op,         \* per worker: the endpoint being served
    token,      \* per worker: the bearer token of the request
    user,       \* per worker: the decoded token returned by get_current_user
    task_id,    \* per worker: path parameter, or the id returned by create
    body,       \* per worker: the validated request model (Task / TaskUpdate)
    status,     \* per worker: HTTP status of the response
    result,     \* per worker: response payload of GET /tasks
    extra,      \* per worker, history: the body's user_id key, which the model drops
    nreq,       \* number of requests accepted so far
    creator,    \* history: id -> uid under which POST /task returned that id
    deleted     \* history: ids for which DELETE answered 200

vars == <<store, nextId, pc, op, token, user, task_id, body, status, result,
          extra, nreq, creator, deleted>>

-----------------------------------------------------------------------------
(* Bounds *)

\* Auto-ids the collection hands out, and the ids a path may name.
MaxTasks == 2
\* Requests accepted in a run of the two workers (Spec).
MaxReqs == 3
\* Requests accepted in a run of the single worker (SpecSeq).
MaxSeqReqs == 2

\* Worker threads serving requests.
Procs == {"w1", "w2"}
Users == {"u1", "u2"}
Ids == 1..MaxTasks
Titles == {"", "A"}
Descriptions == {"", "B"}

-----------------------------------------------------------------------------
(* Values.  Optional[x] is <<>> for None and <<v>> for a value v. *)

None == <<>>
Some(v) == <<v>>

TaskFields == {"title", "description", "completed"}

NoUser == [uid |-> ""]
NoBody == [none |-> TRUE]
NoResult == {}

HTTP_200 == 200
HTTP_401 == 401
HTTP_403 == 403
HTTP_404 == 404
HTTP_500 == 500

-----------------------------------------------------------------------------
(* Identity provider: auth.verify_id_token as used by get_current_user. *)

Tokens ==
    {[uid |-> u, kind |-> "valid"] : u \in Users}
        \cup {[uid |-> "u1", kind |-> "expired"],
              [uid |-> "u1", kind |-> "invalid"],
              [uid |-> "", kind |-> "missing"]}

get_current_user_NoExpiry(authorization) ==
    IF authorization.kind \in {"valid", "expired"}
    THEN [ok |-> TRUE, user |-> [uid |-> authorization.uid], status_code |-> HTTP_200]
    ELSE [ok |-> FALSE, user |-> NoUser, status_code |-> HTTP_401]

get_current_user(authorization) ==
    IF authorization.kind = "valid"
    THEN [ok |-> TRUE, user |-> [uid |-> authorization.uid], status_code |-> HTTP_200]
    ELSE [ok |-> FALSE, user |-> NoUser, status_code |-> HTTP_401]

-----------------------------------------------------------------------------
(* Request models.  A raw JSON body gives every key one of: absent from    *)
(* the object, JSON null, or a value.  pydantic keeps the declared fields, *)
(* ignores every other key, and gives an Optional field that is absent or  *)
(* null the value None.                                                    *)

JAbsent == [j |-> "absent"]
JNull == [j |-> "null"]
JVal(v) == [j |-> "value", v |-> v]

RawKeys == TaskFields \cup {"user_id"}

\* Bodies accepted by the Task model: the three fields present with values.
RawTasks ==
    [title : {JVal(v) : v \in Titles},
     description : {JVal(v) : v \in Descriptions},
     completed : {JVal(v) : v \in BOOLEAN},
     user_id : {JAbsent, JVal("u2")}]

\* Bodies accepted by the TaskUpdate model: every field optional.
RawTaskUpdates ==
    [title : {JAbsent, JNull} \cup {JVal(v) : v \in Titles},
     description : {JAbsent, JNull} \cup {JVal(v) : v \in Descriptions},
     completed : {JAbsent, JNull} \cup {JVal(v) : v \in BOOLEAN},
     user_id : {JAbsent, JVal("u2")}]

Task(raw) == [k \in TaskFields |-> raw[k].v]

OptionalField(jv) == IF jv.j = "value" THEN Some(jv.v) ELSE None

TaskUpdate_AllowExtra(raw) ==
    [k \in {x \in RawKeys : x \in TaskFields \/ raw[x].j = "value"}
        |-> OptionalField(raw[k])]

TaskUpdate(raw) == [k \in TaskFields |-> OptionalField(raw[k])]
-----------------------------------------------------------------------------
(* Document store: the Firestore client calls the handlers make. *)

\* DocumentReference.get().exists
doc_exists(db, id) == id \in DOMAIN db

\* DocumentReference.set(data): creates or replaces the document.
doc_set(db, id, data) ==
    [i \in DOMAIN db \cup {id} |-> IF i = id THEN data ELSE db[i]]

\* DocumentReference.update(data): refuses an empty dict (ValueError, raised
\* before any call to the server), fails with NotFound on a missing document,
\* else replaces the given fields and keeps the others.
MergeFields(old, data) ==
    [k \in DOMAIN old \cup DOMAIN data |-> IF k \in DOMAIN data THEN data[k] ELSE old[k]]

doc_update_Upsert(db, id, data) ==
    IF DOMAIN data = {} THEN [err |-> "ValueError", db |-> db]
    ELSE IF id \notin DOMAIN db THEN [err |-> "", db |-> doc_set(db, id, data)]
    ELSE [err |-> "", db |-> [db EXCEPT ![id] = MergeFields(db[id], data)]]

doc_update(db, id, data) ==
    IF DOMAIN data = {} THEN [err |-> "ValueError", db |-> db]
    ELSE IF id \notin DOMAIN db THEN [err |-> "NotFound", db |-> db]
    ELSE [err |-> "", db |-> [db EXCEPT ![id] = MergeFields(db[id], data)]]

\* DocumentReference.delete(): succeeds whether or not the document exists.
doc_delete(db, id) == [i \in DOMAIN db \ {id} |-> db[i]]

\* collection.where("user_id", "==", uid).stream()
where_user_id_Any(db, uid) == DOMAIN db

where_user_id(db, uid) == {i \in DOMAIN db : db[i].user_id = uid}

-----------------------------------------------------------------------------
(* Initial state: empty collection, every worker idle. *)

Ops == {"get_user_tasks", "create_task", "update_task", "delete_task", "complete_task"}
Guarded == {"update_task", "delete_task", "complete_task"}

Init ==
    /\ store = <<>>
    /\ nextId = 0
    /\ pc = [p \in Procs |-> "idle"]
    /\ op = [p \in Procs |-> "none"]
    /\ token = [p \in Procs |-> [uid |-> "", kind |-> "missing"]]
    /\ user = [p \in Procs |-> NoUser]
    /\ task_id = [p \in Procs |-> 0]
    /\ body = [p \in Procs |-> NoBody]
    /\ status = [p \in Procs |-> 0]
    /\ result = [p \in Procs |-> NoResult]
    /\ extra = [p \in Procs |-> JAbsent]
    /\ nreq = 0
    /\ creator = <<>>
    /\ deleted = {}

\* Creates accepted and not yet served: each will take one auto-id.
PendingCreates == Cardinality({p \in Procs : pc[p] = "create"})

\* The worker starts on a request: endpoint o, bearer token tok, path
\* parameter t and validated body b.  The dependency get_current_user runs
\* before the handler body and answers 401 itself when verification fails.
Accept(p, o, tok, t, b, e) ==
    LET auth == get_current_user(tok) IN
    /\ pc[p] \in {"idle", "done"}
    /\ nreq' = nreq + 1
    /\ op' = [op EXCEPT ![p] = o]
    /\ token' = [token EXCEPT ![p] = tok]
    /\ result' = [result EXCEPT ![p] = NoResult]
    /\ IF auth.ok
       THEN /\ pc' = [pc EXCEPT ![p] =
                        IF o = "get_user_tasks" THEN "list"
                        ELSE IF o = "create_task" THEN "create"
                        ELSE "exists"]
            /\ user' = [user EXCEPT ![p] = auth.user]
            /\ task_id' = [task_id EXCEPT ![p] = t]
            /\ body' = [body EXCEPT ![p] = b]
            /\ extra' = [extra EXCEPT ![p] = e]
            /\ status' = [status EXCEPT ![p] = 0]
       ELSE /\ pc' = [pc EXCEPT ![p] = "done"]
            /\ user' = [user EXCEPT ![p] = NoUser]
            /\ task_id' = [task_id EXCEPT ![p] = 0]
            /\ body' = [body EXCEPT ![p] = NoBody]
            /\ extra' = [extra EXCEPT ![p] = JAbsent]
            /\ status' = [status EXCEPT ![p] = auth.status_code]
    /\ UNCHANGED <<store, nextId, creator, deleted>>

\* Arrival of a request, one action per route.  A request whose token is
\* refused never reaches the handler, so its path parameter and body are
\* not looked at.
Verified == {tok \in Tokens : get_current_user(tok).ok}

recv_unauthenticated(p) ==
    \E o \in Ops, tok \in Tokens \ Verified : Accept(p, o, tok, 0, NoBody, JAbsent)

recv_get_user_tasks(p) ==
    \E tok \in Verified : Accept(p, "get_user_tasks", tok, 0, NoBody, JAbsent)

recv_create_task(p, raws) ==
    /\ nextId + PendingCreates < MaxTasks
    /\ \E tok \in Verified, raw \in raws : Accept(p, "create_task", tok, 0, Task(raw), raw.user_id)

recv_update_task(p, raws) ==
    \E tok \in Verified, t \in Ids, raw \in raws :
        Accept(p, "update_task", tok, t, TaskUpdate(raw), raw.user_id)

recv_delete_task(p) ==
    \E tok \in Verified, t \in Ids : Accept(p, "delete_task", tok, t, NoBody, JAbsent)

recv_complete_task(p) ==
    \E tok \in Verified, t \in Ids : Accept(p, "complete_task", tok, t, NoBody, JAbsent)

Respond(p, code) ==
    /\ pc' = [pc EXCEPT ![p] = "done"]
    /\ status' = [status EXCEPT ![p] = code]

\* GET /tasks
TaskInDb(db, i) == [k \in DOMAIN db[i] \cup {"id"} |-> IF k = "id" THEN i ELSE db[i][k]]

get_user_tasks(p) ==
    /\ pc[p] = "list"
    /\ result' = [result EXCEPT ![p] =
                    {TaskInDb(store, i) : i \in where_user_id(store, user[p].uid)}]
    /\ Respond(p, HTTP_200)
    /\ UNCHANGED <<store, nextId, op, token, user, task_id, body, extra, nreq, creator, deleted>>

\* POST /task
NewTaskData(task, uid) ==
    [k \in DOMAIN task \cup {"user_id"} |-> IF k = "user_id" THEN uid ELSE task[k]]

create_task(p) ==
    /\ pc[p] = "create"
    /\ LET id == nextId + 1 IN
        /\ nextId' = id
        /\ store' = doc_set(store, id, NewTaskData(body[p], user[p].uid))
        /\ task_id' = [task_id EXCEPT ![p] = id]
        /\ creator' = [i \in DOMAIN creator \cup {id} |->
                          IF i = id THEN user[p].uid ELSE creator[i]]
    /\ Respond(p, HTTP_200)
    /\ UNCHANGED <<op, token, user, body, result, extra, nreq, deleted>>
\* PUT, DELETE, PATCH /task/{task_id}: `if not task_ref.get().exists: raise 404`
ExistenceCheck_Skip(p) ==
    /\ pc[p] = "exists"
    /\ pc' = [pc EXCEPT ![p] = "owner"]
    /\ UNCHANGED status

ExistenceCheck(p) ==
    /\ pc[p] = "exists"
    /\ IF doc_exists(store, task_id[p])
       THEN pc' = [pc EXCEPT ![p] = "owner"] /\ UNCHANGED status
       ELSE Respond(p, HTTP_404)

task_exists_guard(p) ==
    /\ op[p] \in Guarded
    /\ ExistenceCheck(p)
    /\ UNCHANGED <<store, nextId, op, token, user, task_id, body, result, extra,
                   nreq, creator, deleted>>

\* The second read, `task_data = task_ref.get().to_dict()`, and the ownership
\* test.  to_dict() of a missing document is None, and None["user_id"] raises
\* TypeError, which no handler catches: the server answers 500.
OwnershipCheck_Skip(p) ==
    /\ pc[p] = "owner"
    /\ IF ~doc_exists(store, task_id[p])
       THEN Respond(p, HTTP_500)
       ELSE pc' = [pc EXCEPT ![p] = "write"] /\ UNCHANGED status

OwnershipCheck(p) ==
    /\ pc[p] = "owner"
    /\ IF ~doc_exists(store, task_id[p])
       THEN Respond(p, HTTP_500)
       ELSE IF store[task_id[p]].user_id # user[p].uid
       THEN Respond(p, HTTP_403)
       ELSE pc' = [pc EXCEPT ![p] = "write"] /\ UNCHANGED status

ownership_guard(p) ==
    /\ op[p] \in Guarded
    /\ OwnershipCheck(p)
    /\ UNCHANGED <<store, nextId, op, token, user, task_id, body, result, extra,
                   nreq, creator, deleted>>

\* PUT /task/{task_id}: {k: v for k, v in task.dict().items() if v is not None}
Truthy(k, v) ==
    /\ v # None
    /\ IF k = "completed" THEN v[1] ELSE v[1] # ""

data_to_update_Truthy(task) ==
    [k \in {x \in DOMAIN task : Truthy(x, task[x])} |-> task[k][1]]

data_to_update(task) ==
    [k \in {x \in DOMAIN task : task[x] # None} |-> task[k][1]]

\* An exception of task_ref.update (ValueError, NotFound) is not caught: 500.
update_task(p) ==
    /\ pc[p] = "write"
    /\ op[p] = "update_task"
    /\ LET r == doc_update(store, task_id[p], data_to_update(body[p])) IN
        /\ store' = r.db
        /\ Respond(p, IF r.err = "" THEN HTTP_200 ELSE HTTP_500)
    /\ UNCHANGED <<nextId, op, token, user, task_id, body, result, extra, nreq, creator,
                   deleted>>

\* DELETE /task/{task_id}
delete_task(p) ==
    /\ pc[p] = "write"
    /\ op[p] = "delete_task"
    /\ store' = doc_delete(store, task_id[p])
    /\ deleted' = deleted \cup {task_id[p]}
    /\ Respond(p, HTTP_200)
    /\ UNCHANGED <<nextId, op, token, user, task_id, body, result, extra, nreq, creator>>

\* PATCH /task/{task_id}/complete
CompletedUpdate_False == [completed |-> FALSE]

CompletedUpdate == [completed |-> TRUE]

complete_task(p) ==
    /\ pc[p] = "write"
    /\ op[p] = "complete_task"
    /\ LET r == doc_update(store, task_id[p], CompletedUpdate) IN
        /\ store' = r.db
        /\ Respond(p, IF r.err = "" THEN HTTP_200 ELSE HTTP_500)
    /\ UNCHANGED <<nextId, op, token, user, task_id, body, result, extra, nreq, creator,
                   deleted>>

-----------------------------------------------------------------------------
\* Request bodies tried when two workers run side by side.
FewRawTasks ==
    {[title |-> JVal("A"), description |-> JVal("B"), completed |-> JVal(FALSE),
      user_id |-> JAbsent]}

FewRawTaskUpdates ==
    {[title |-> JAbsent, description |-> JAbsent, completed |-> JAbsent,
      user_id |-> JAbsent],
     [title |-> JVal(""), description |-> JAbsent, completed |-> JAbsent,
      user_id |-> JAbsent]}

\* Two workers, requests interleaved between their calls to the store.
Next ==
    \E p \in Procs :
        \/ nreq < MaxReqs /\ recv_unauthenticated(p)
        \/ nreq < MaxReqs /\ recv_get_user_tasks(p)
        \/ nreq < MaxReqs /\ recv_create_task(p, FewRawTasks)
        \/ nreq < MaxReqs /\ recv_update_task(p, FewRawTaskUpdates)
        \/ nreq < MaxReqs /\ recv_delete_task(p)
        \/ nreq < MaxReqs /\ recv_complete_task(p)
        \/ get_user_tasks(p)
        \/ create_task(p)
        \/ task_exists_guard(p)
        \/ ownership_guard(p)
        \/ update_task(p)
        \/ delete_task(p)
        \/ complete_task(p)

Spec == Init /\ [][Next]_vars

\* One worker, every request body.
NextSeq ==
    \/ nreq < MaxSeqReqs /\ recv_unauthenticated("w1")
    \/ nreq < MaxSeqReqs /\ recv_get_user_tasks("w1")
    \/ nreq < MaxSeqReqs /\ recv_create_task("w1", RawTasks)
    \/ nreq < MaxSeqReqs /\ recv_update_task("w1", RawTaskUpdates)
    \/ nreq < MaxSeqReqs /\ recv_delete_task("w1")
    \/ nreq < MaxSeqReqs /\ recv_complete_task("w1")
    \/ get_user_tasks("w1")
    \/ create_task("w1")
    \/ task_exists_guard("w1")
    \/ ownership_guard("w1")
    \/ update_task("w1")
    \/ delete_task("w1")
    \/ complete_task("w1")

SpecSeq == Init /\ [][NextSeq]_vars

-----------------------------------------------------------------------------
(* Properties *)

Documented == {HTTP_200, HTTP_401, HTTP_403, HTTP_404}

\* Worker p makes the step that leaves position at.
Leaves(p, at) == pc[p] = at /\ pc'[p] # at

\* Worker p makes the store write of endpoint o and answers.
Writes(p, o) == pc[p] = "write" /\ op[p] = o /\ pc'[p] = "done"

\* The document keeps every field but k (and stays in the collection).
KeepsOthers(i, k) ==
    /\ i \in DOMAIN store'
    /\ DOMAIN store'[i] = DOMAIN store[i]
    /\ \A f \in DOMAIN store[i] \ {k} : store'[i][f] = store[i][f]

OthersUntouched(i) ==
    /\ DOMAIN store' \ {i} = DOMAIN store \ {i}
    /\ \A j \in DOMAIN store \ {i} : store'[j] = store[j]

\* C1: GET /tasks as uid u answers exactly the stored tasks whose user_id is
\* u: every task created under u and not deleted is in the answer under the
\* id its creation returned, with its stored fields, and no task created
\* under another uid is in it.
C1_ListExactlyOwn ==
    [][\A p \in Procs :
        Leaves(p, "list") =>
            LET u == user[p].uid
                ids == {r.id : r \in result'[p]} IN
            /\ status'[p] = HTTP_200
            /\ ids = {i \in DOMAIN creator : creator[i] = u /\ i \notin deleted}
            /\ Cardinality(result'[p]) = Cardinality(ids)
            /\ \A r \in result'[p] :
                /\ r.id \in DOMAIN store
                /\ r.user_id = u
                /\ \A k \in DOMAIN store[r.id] : r[k] = store[r.id][k]
            /\ store' = store]_vars

C1_Witness ==
    \E p \in Procs :
        /\ pc[p] = "done" /\ op[p] = "get_user_tasks" /\ status[p] = HTTP_200
        /\ result[p] # {}
        /\ \E i \in DOMAIN store : store[i].user_id # user[p].uid

\* C2: an update, delete or complete request on an existing task of another
\* user is answered 403 and leaves the store as it is; and whenever a stored
\* task changes or disappears, the step is the write of a request on that
\* task whose verified uid is the task's user_id.
C2_OnlyOwnerMutates ==
    [][/\ \A p \in Procs :
            (/\ Leaves(p, "owner")
             /\ task_id[p] \in DOMAIN store
             /\ store[task_id[p]].user_id # user[p].uid)
            => (status'[p] = HTTP_403 /\ pc'[p] = "done" /\ store' = store)
       /\ \A i \in DOMAIN store :
            (i \notin DOMAIN store' \/ store'[i] # store[i])
            => \E p \in Procs :
                /\ pc[p] = "write" /\ pc'[p] = "done"
                /\ task_id[p] = i
                /\ user[p].uid = store[i].user_id]_vars

C2_Witness ==
    \E p \in Procs :
        /\ pc[p] = "done" /\ op[p] = "delete_task" /\ status[p] = HTTP_403
        /\ task_id[p] \in DOMAIN store
        /\ store[task_id[p]].user_id # user[p].uid

\* C3: existence is checked before ownership: a request whose task id is not
\* in the store at the existence check is answered 404, whoever the caller
\* is, and the store is left as it is; 403 is answered only when the task is
\* in the store and its user_id is not the caller's uid.
C3_ExistenceBeforeOwnership ==
    [][\A p \in Procs :
        /\ (Leaves(p, "exists") /\ task_id[p] \notin DOMAIN store)
            => (status'[p] = HTTP_404 /\ pc'[p] = "done" /\ store' = store)
        /\ (pc[p] # "done" /\ pc'[p] = "done" /\ status'[p] = HTTP_404)
            => (pc[p] = "exists" /\ task_id[p] \notin DOMAIN store)
        /\ (pc[p] # "done" /\ pc'[p] = "done" /\ status'[p] = HTTP_403)
            => (/\ task_id[p] \in DOMAIN store
                /\ store[task_id[p]].user_id # user[p].uid)]_vars

C3_Witness ==
    \E p \in Procs :
        /\ pc[p] = "done" /\ op[p] = "complete_task" /\ status[p] = HTTP_404
        /\ task_id[p] \notin DOMAIN store
        /\ \E i \in DOMAIN store : store[i].user_id # user[p].uid

\* C4: a request whose token is not verified (expired, invalid, missing) is
\* answered 401 and never enters a handler; a worker inside a handler holds
\* the identity of a valid token; the arrival of a request leaves the store
\* as it is.
C4_AuthGate ==
    /\ [](\A p \in Procs :
            /\ (pc[p] # "idle" /\ token[p].kind # "valid")
                => (pc[p] = "done" /\ status[p] = HTTP_401 /\ user[p] = NoUser)
            /\ pc[p] \in {"list", "create", "exists", "owner", "write"}
                => (/\ token[p].kind = "valid"
                    /\ user[p].uid = token[p].uid
                    /\ user[p].uid \in Users)
            /\ (pc[p] = "done" /\ status[p] = HTTP_401) => token[p].kind # "valid")
    /\ [][nreq' # nreq => store' = store]_vars

C4_Witness ==
    \E p \in Procs :
        /\ pc[p] = "done" /\ op[p] = "delete_task" /\ status[p] = HTTP_401
        /\ token[p].kind = "expired"
        /\ \E i \in DOMAIN store : store[i].user_id = token[p].uid
        /\ \A q \in Procs \ {p} : pc[q] = "idle"

\* C5: an update answered 200 is a field-level merge: each of title,
\* description and completed that the body gives a value (the empty string
\* and false included) takes that value, each one the body leaves out (or
\* gives as null) keeps its value, and user_id and every other task are left
\* as they are; so a body {completed: true} changes completed alone.
C5_FieldMerge ==
    [][\A p \in Procs :
        (Writes(p, "update_task") /\ status'[p] = HTTP_200) =>
            LET t == task_id[p] IN
            /\ t \in DOMAIN store /\ t \in DOMAIN store'
            /\ DOMAIN store'[t] = DOMAIN store[t]
            /\ \A k \in TaskFields :
                store'[t][k] = IF body[p][k] = None THEN store[t][k] ELSE body[p][k][1]
            /\ store'[t].user_id = store[t].user_id
            /\ OthersUntouched(t)
            /\ body[p] = [title |-> None, description |-> None, completed |-> Some(TRUE)]
                => (store'[t].completed = TRUE /\ KeepsOthers(t, "completed"))]_vars

C5_Witness ==
    \E p \in Procs :
        /\ pc[p] = "done" /\ op[p] = "update_task" /\ status[p] = HTTP_200
        /\ body[p] = [title |-> Some(""), description |-> None, completed |-> Some(FALSE)]
        /\ task_id[p] \in DOMAIN store
        /\ store[task_id[p]].title = ""
        /\ store[task_id[p]].description = "B"
        /\ store[task_id[p]].completed = FALSE

\* C6: an update by the owner of an existing task whose body supplies no
\* field is answered 200 (and the record is left as it is).
C6_EmptyUpdateSucceeds ==
    \A p \in Procs :
        (/\ pc[p] = "done" /\ op[p] = "update_task"
         /\ token[p].kind = "valid"
         /\ task_id[p] \in DOMAIN store
         /\ store[task_id[p]].user_id = user[p].uid
         /\ \A k \in TaskFields : body[p][k] = None)
        => status[p] = HTTP_200

\* C7: a task whose delete was answered 200 is not in the store and never
\* comes back; it is in no later answer of GET /tasks; and every update,
\* delete or complete whose existence check comes after that answer is
\* answered 404.
C7_DeletedStaysDeleted ==
    /\ [](deleted \cap DOMAIN store = {})
    /\ [][/\ deleted \subseteq deleted'
          /\ \A p \in Procs :
                /\ (Leaves(p, "exists") /\ task_id[p] \in deleted)
                    => (status'[p] = HTTP_404 /\ pc'[p] = "done")
                /\ Leaves(p, "list")
                    => \A r \in result'[p] : r.id \notin deleted
                /\ (Writes(p, "delete_task") /\ status'[p] = HTTP_200)
                    => task_id[p] \in deleted']_vars

C7_Witness ==
    \E p \in Procs :
        /\ pc[p] = "done" /\ op[p] = "delete_task" /\ status[p] = HTTP_404
        /\ task_id[p] \in deleted
        /\ user[p].uid = creator[task_id[p]]

\* C8: every stored task has one owner, the verified uid of the caller whose
\* POST /task created it, whatever user_id the request body carries; and no
\* step changes the user_id of a stored task or the id it is stored under.
C8_OwnerImmutable ==
    /\ [](\A i \in DOMAIN store :
            /\ DOMAIN store[i] = TaskFields \cup {"user_id"}
            /\ store[i].user_id \in Users
            /\ store[i].user_id = creator[i])
    /\ [][/\ \A i \in DOMAIN store \cap DOMAIN store' :
                store'[i].user_id = store[i].user_id
          /\ \A i \in DOMAIN store' \ DOMAIN store :
                \E p \in Procs :
                    /\ Leaves(p, "create")
                    /\ task_id'[p] = i
                    /\ i = nextId'
                    /\ i \notin DOMAIN creator
                    /\ store'[i].user_id = user[p].uid
                    /\ user[p].uid = token[p].uid]_vars

C8_Witness ==
    \E p \in Procs :
        /\ pc[p] = "done" /\ op[p] = "update_task" /\ status[p] = HTTP_200
        /\ extra[p] = JVal("u2")
        /\ user[p].uid = "u1"
        /\ store[task_id[p]].user_id = "u1"

\* C9: a complete answered 200 has set completed to true and left title,
\* description, user_id and the id alone, and every other task; on a task
\* that is already completed it is answered 200 and changes nothing.
C9_CompleteIdempotent ==
    [][\A p \in Procs :
        LET t == task_id[p] IN
        /\ (Writes(p, "complete_task") /\ status'[p] = HTTP_200)
            => (/\ t \in DOMAIN store
                /\ store'[t].completed = TRUE
                /\ KeepsOthers(t, "completed")
                /\ OthersUntouched(t))
        /\ (Writes(p, "complete_task") /\ t \in DOMAIN store)
            => (/\ status'[p] = HTTP_200
                /\ store[t].completed = TRUE => store' = store)]_vars

C9_Witness ==
    \E p \in Procs, q \in Procs :
        /\ p # q
        /\ pc[p] = "done" /\ op[p] = "complete_task" /\ status[p] = HTTP_200
        /\ pc[q] = "done" /\ op[q] = "complete_task" /\ status[q] = HTTP_200
        /\ task_id[p] = task_id[q]
        /\ store[task_id[p]].completed = TRUE

\* C10: every update, delete and complete request ends with 200, 401, 403 or
\* 404, under every interleaving with other requests on the same task.  (An
\* update that supplies no field is left out here: it is the subject of C6.)
C10_DocumentedOutcomes ==
    \A p \in Procs :
        (/\ pc[p] = "done" /\ op[p] \in Guarded
         /\ ~(/\ op[p] = "update_task" /\ token[p].kind = "valid"
              /\ \A k \in TaskFields : body[p][k] = None))
        => status[p] \in Documented

====
